---- MODULE Spec2Model ----
(***************************************************************************)
(* Model of packages/typescript/src/from-type.ts: the recursive conversion *)
(* of a TypeScript type (ts.Type, queried through a ts.TypeChecker) into   *)
(* a onetyped schema node.                                                 *)
(*                                                                         *)
(* A type graph g maps type ids to type descriptors; a descriptor holds    *)
(* what the code reads from a ts.Type: flags, the literal value, object    *)
(* flags, the reference target's object flags, the properties, the call    *)
(* signatures, the symbol, the type arguments, the union / intersection    *)
(* constituents and the text typeToString prints.  Constituent types are   *)
(* ids of g, so that a graph may be cyclic.                                *)
(***************************************************************************)
EXTENDS Integers, Sequences, FiniteSets, TLC

VARIABLES types, root, pc, result, stack

vars == <<types, root, pc, result, stack>>

(***************************************************************************)
(* Bounds of the model.                                                    *)
(***************************************************************************)
MaxProps == 2
MaxSigs == 2
MaxParams == 1
MaxArgs == 2
MaxMembers == 2
MaxStack == 5

(***************************************************************************)
(* What the introspection API yields.                                      *)
(***************************************************************************)
\* typeArguments[k] past the end of the list: no type
Undefined == 0

NoSymbol == "undefined"

NoValue == [undefined |-> TRUE]

\* (type.flags & flag) === flag, flags being sets of bits
hasFlag(type, flag) == flag \subseteq type.flags

hasSymbolFlag(symbol, flag) == flag \subseteq symbol.flags

hasObjectFlag(type, flag) == flag \subseteq type.objectFlags

\* ts.Type.isLiteral(), isUnion(), isIntersection()
isLiteral(type) == type.value # NoValue

isUnion(type) == hasFlag(type, {"Union"})

isIntersection(type) == hasFlag(type, {"Intersection"})

\* typeArguments[i] of a JavaScript array (0-based i)
At(typeArguments, i) ==
    IF i + 1 <= Len(typeArguments) THEN typeArguments[i + 1] ELSE Undefined

(***************************************************************************)
(* Results: a schema node, or the error a call throws.                     *)
(***************************************************************************)
Failure(name, prefix, detail) ==
    [failure |-> TRUE, name |-> name, message |-> <<prefix, detail>>]

IsFailure(r) == "failure" \in DOMAIN r

IsNode(r) == "kind" \in DOMAIN r

Absent == [absent |-> TRUE]

\* reading type.flags of undefined (hasFlag, line 27, called at line 66)
TypeErrorOfUndefined ==
    Failure("TypeError", "Cannot read properties of undefined", "flags")

Throws(rs) == \E i \in 1..Len(rs) : IsFailure(rs[i])

\* the first throw in evaluation order is the one that propagates
FirstFailure(rs) ==
    rs[CHOOSE i \in 1..Len(rs) :
          IsFailure(rs[i]) /\ \A j \in 1..(i - 1) : ~IsFailure(rs[j])]

(***************************************************************************)
(* The node builders of @onetyped/core.                                    *)
(***************************************************************************)
string == [kind |-> "string"]

number == [kind |-> "number"]

boolean == [kind |-> "boolean"]

unknown == [kind |-> "unknown"]

any == [kind |-> "any"]

bigint == [kind |-> "bigint"]

date == [kind |-> "date"]

literal(value) == [kind |-> "literal", value |-> value]

optional(node) == [kind |-> "optional", inner |-> node]

array(element) == [kind |-> "array", element |-> element]

set(element) == [kind |-> "set", element |-> element]

map(key, value) == [kind |-> "map", key |-> key, value |-> value]

record(key, value) == [kind |-> "record", key |-> key, value |-> value]

object(shape) == [kind |-> "object", shape |-> shape]

func(arguments, return) ==
    [kind |-> "function", arguments |-> arguments, return |-> return]

EmptyInput(builder) == Failure("Error", "empty input: ", builder)

\* mutant of tuple: the empty list is accepted
tupleUnchecked(elements) == [kind |-> "tuple", elements |-> elements]

tuple(elements) ==
    IF elements = <<>> THEN EmptyInput("tuple")
    ELSE [kind |-> "tuple", elements |-> elements]

union(nodes) ==
    IF nodes = <<>> THEN EmptyInput("union")
    ELSE [kind |-> "union", nodes |-> nodes]

intersection(nodes) ==
    IF nodes = <<>> THEN EmptyInput("intersection")
    ELSE [kind |-> "intersection", nodes |-> nodes]

(***************************************************************************)
(* JavaScript library functions the code calls.                            *)
(***************************************************************************)
RECURSIVE DigitsValue(_)
\* the integer a base-10 digit string denotes
DigitsValue(digits) ==
    IF digits = <<>> THEN 0
    ELSE 10 * DigitsValue(SubSeq(digits, 1, Len(digits) - 1)) + digits[Len(digits)]

\* BigInt(`${negative ? '-' : ''}${base10Value}`)
BigIntOf(value) ==
    IF value.negative THEN 0 - DigitsValue(value.base10Value)
    ELSE DigitsValue(value.base10Value)

\* Object.fromEntries: one key per name, the last entry of a name wins
fromEntries(entries) ==
    [name \in {entries[i][1] : i \in 1..Len(entries)} |->
        entries[CHOOSE i \in 1..Len(entries) :
                   /\ entries[i][1] = name
                   /\ \A j \in (i + 1)..Len(entries) : entries[j][1] # name][2]]

\* array.filter(Boolean) over nodes and undefined
RECURSIVE filterBoolean(_)
filterBoolean(xs) ==
    IF xs = <<>> THEN <<>>
    ELSE IF Head(xs) = Absent THEN filterBoolean(Tail(xs))
    ELSE <<Head(xs)>> \o filterBoolean(Tail(xs))

(***************************************************************************)
(* from-type.ts                                                            *)
(***************************************************************************)
RECURSIVE fromType(_, _)

\* lines 45-48 and 190, 198: a list of types classified in order
fromTypes(g, ids) == [i \in 1..Len(ids) |-> fromType(g, ids[i])]

\* lines 44-55: one call signature, its parameters first, then its return type
signatureNode(g, signature) ==
    LET parameters == fromTypes(g, signature.parameters)
    IN  IF Throws(parameters) THEN FirstFailure(parameters)
        ELSE LET return == fromType(g, signature.returnType)
             IN  IF IsFailure(return) THEN return
                 ELSE func(parameters, return)

\* mutant of getNodeFromCallSignatures: a single signature is wrapped in a union too
getNodeFromCallSignaturesAlwaysUnion(g, callSignatures) ==
    IF Len(callSignatures) > 0
    THEN LET nodeCallSignatures ==
                 [i \in 1..Len(callSignatures) |-> signatureNode(g, callSignatures[i])]
         IN  IF Throws(nodeCallSignatures) THEN FirstFailure(nodeCallSignatures)
             ELSE union(nodeCallSignatures)
    ELSE Absent

getNodeFromCallSignatures(g, callSignatures) ==
    IF Len(callSignatures) > 0
    THEN LET nodeCallSignatures ==
                 [i \in 1..Len(callSignatures) |-> signatureNode(g, callSignatures[i])]
         IN  IF Throws(nodeCallSignatures) THEN FirstFailure(nodeCallSignatures)
             ELSE IF Len(nodeCallSignatures) = 1 THEN nodeCallSignatures[1]
             ELSE union(nodeCallSignatures)
    ELSE Absent

\* mutant of propertyNode: the optional flag is not read
propertyNodeUnwrapped(g, property) == fromType(g, property.type)

\* mutant of propertyNode: a failure is caught and replaced by unknown
propertyNodeCaught(g, property) ==
    LET node == fromType(g, property.type)
    IN  IF IsFailure(node) THEN unknown
        ELSE IF hasSymbolFlag(property, {"Optional"}) THEN optional(node)
        ELSE node

\* lines 109-115 and 124-128: a property's type, wrapped when the property is optional
propertyNode(g, property) ==
    LET node == fromType(g, property.type)
    IN  IF IsFailure(node) THEN node
        ELSE IF hasSymbolFlag(property, {"Optional"}) THEN optional(node)
        ELSE node

\* mutant of tupleNode: the property named length is not skipped
tupleNodeKeepingLength(g, type) ==
    LET mapped == [i \in 1..Len(type.properties) |->
                      propertyNode(g, type.properties[i])]
    IN  IF Throws(mapped) THEN FirstFailure(mapped)
        ELSE tuple(filterBoolean(mapped))

\* lines 106-117: the tuple of a tuple reference
tupleNode(g, type) ==
    LET mapped == [i \in 1..Len(type.properties) |->
                      IF type.properties[i].name = "length" THEN Absent
                      ELSE propertyNode(g, type.properties[i])]
    IN  IF Throws(mapped) THEN FirstFailure(mapped)
        ELSE tuple(filterBoolean(mapped))

\* mutant of combine: the object comes first in the intersection
combineObjectFirst(propertyEntries, functionNode) ==
    IF functionNode # Absent
    THEN IF Len(propertyEntries) = 0 THEN functionNode
         ELSE intersection(<<object(fromEntries(propertyEntries)), functionNode>>)
    ELSE object(fromEntries(propertyEntries))

\* lines 136-148: what the property entries and the function node combine to
combine(propertyEntries, functionNode) ==
    IF functionNode # Absent
    THEN IF Len(propertyEntries) = 0 THEN functionNode
         ELSE intersection(<<functionNode, object(fromEntries(propertyEntries))>>)
    ELSE object(fromEntries(propertyEntries))

\* lines 121-148: an object type that is no tuple reference
objectNode(g, type) ==
    LET nodes == [i \in 1..Len(type.properties) |-> propertyNode(g, type.properties[i])]
        propertyEntries ==
            [i \in 1..Len(type.properties) |-> <<type.properties[i].name, nodes[i]>>]
    IN  IF Throws(nodes) THEN FirstFailure(nodes)
        ELSE LET functionNode == getNodeFromCallSignatures(g, type.callSignatures)
             IN  IF IsFailure(functionNode) THEN functionNode
                 ELSE combine(propertyEntries, functionNode)

\* lines 102-105: a reference whose target is a tuple
isTupleReference(type) ==
    /\ hasObjectFlag(type, {"Reference"})
    /\ hasObjectFlag(type.target, {"Tuple"})

\* mutant of namedNode: Map reads its type arguments in the wrong order
namedNodeSwapped(g, type) ==
    LET typeArguments == type.typeArguments
        first == fromType(g, At(typeArguments, 0))
        second == fromType(g, At(typeArguments, 1))
    IN  CASE type.symbol \in {"Array", "ReadonlyArray"} ->
                 IF IsFailure(first) THEN first ELSE array(first)
          [] type.symbol = "Date" -> date
          [] type.symbol = "Set" ->
                 IF IsFailure(first) THEN first ELSE set(first)
          [] type.symbol = "Record" ->
                 IF Throws(<<first, second>>) THEN FirstFailure(<<first, second>>)
                 ELSE record(first, second)
          [] type.symbol = "Map" ->
                 IF Throws(<<first, second>>) THEN FirstFailure(<<first, second>>)
                 ELSE map(second, first)
          [] OTHER -> Failure("Error", "Unknown symbol name: ", type.symbol)

\* lines 153-186: the switch on the symbol's name
namedNode(g, type) ==
    LET typeArguments == type.typeArguments
        first == fromType(g, At(typeArguments, 0))
        second == fromType(g, At(typeArguments, 1))
    IN  CASE type.symbol \in {"Array", "ReadonlyArray"} ->
                 IF IsFailure(first) THEN first ELSE array(first)
          [] type.symbol = "Date" -> date
          [] type.symbol = "Set" ->
                 IF IsFailure(first) THEN first ELSE set(first)
          [] type.symbol = "Record" ->
                 IF Throws(<<first, second>>) THEN FirstFailure(<<first, second>>)
                 ELSE record(first, second)
          [] type.symbol = "Map" ->
                 IF Throws(<<first, second>>) THEN FirstFailure(<<first, second>>)
                 ELSE map(first, second)
          [] OTHER -> Failure("Error", "Unknown symbol name: ", type.symbol)

\* lines 83-88
literalNode(type) ==
    IF "base10Value" \in DOMAIN type.value
    THEN literal([bigint |-> BigIntOf(type.value)])
    ELSE literal(type.value)

\* lines 190-194
unionNode(g, type) ==
    LET unionTypes == fromTypes(g, type.types)
    IN  IF Throws(unionTypes) THEN FirstFailure(unionTypes) ELSE union(unionTypes)

\* lines 198-202
intersectionNode(g, type) ==
    LET intersectionTypes == fromTypes(g, type.types)
    IN  IF Throws(intersectionTypes) THEN FirstFailure(intersectionTypes)
        ELSE intersection(intersectionTypes)

\* mutant of branch: the symbol is tested before the Object flag
branchSymbolFirst(type) ==
    IF hasFlag(type, {"String"}) THEN "string"
    ELSE IF hasFlag(type, {"Number"}) THEN "number"
    ELSE IF hasFlag(type, {"Boolean"}) THEN "boolean"
    ELSE IF hasFlag(type, {"Unknown"}) THEN "unknown"
    ELSE IF isLiteral(type) THEN "literal"
    ELSE IF hasFlag(type, {"Any"}) THEN "any"
    ELSE IF hasFlag(type, {"BigInt"}) THEN "bigint"
    ELSE IF type.symbol # NoSymbol THEN "symbol"
    ELSE IF hasFlag(type, {"Object"}) THEN "object"
    ELSE IF isUnion(type) THEN "union"
    ELSE IF isIntersection(type) THEN "intersection"
    ELSE "throw"

\* the if-chain of fromType: the first test that holds selects the branch
branch(type) ==
    IF hasFlag(type, {"String"}) THEN "string"
    ELSE IF hasFlag(type, {"Number"}) THEN "number"
    ELSE IF hasFlag(type, {"Boolean"}) THEN "boolean"
    ELSE IF hasFlag(type, {"Unknown"}) THEN "unknown"
    ELSE IF isLiteral(type) THEN "literal"
    ELSE IF hasFlag(type, {"Any"}) THEN "any"
    ELSE IF hasFlag(type, {"BigInt"}) THEN "bigint"
    ELSE IF hasFlag(type, {"Object"}) THEN "object"
    ELSE IF type.symbol # NoSymbol THEN "symbol"
    ELSE IF isUnion(type) THEN "union"
    ELSE IF isIntersection(type) THEN "intersection"
    ELSE "throw"

fromType(g, id) ==
    IF id = Undefined THEN TypeErrorOfUndefined
    ELSE LET type == g[id]
             at == branch(type)
         IN  CASE at = "string" -> string
               [] at = "number" -> number
               [] at = "boolean" -> boolean
               [] at = "unknown" -> unknown
               [] at = "literal" -> literalNode(type)
               [] at = "any" -> any
               [] at = "bigint" -> bigint
               [] at = "object" ->
                      IF isTupleReference(type) THEN tupleNode(g, type)
                      ELSE objectNode(g, type)
               [] at = "symbol" -> namedNode(g, type)
               [] at = "union" -> unionNode(g, type)
               [] at = "intersection" -> intersectionNode(g, type)
               [] OTHER -> Failure("Error", "Unknown type: ", type.text)

(***************************************************************************)
(* The type graphs the checker describes: type 1 is the type handed to     *)
(* fromType, type 2 an intermediate type, type 3 a type without            *)
(* constituents.                                                           *)
(***************************************************************************)
TypeIds == 1..3

Text(id) == <<"T1", "T2", "T3">>[id]

SeqsUpTo(S, n) == UNION {[1..k -> S] : k \in 0..n}

\* a type with no flag, no value, no symbol, no members
Blank(id) ==
    [flags |-> {}, value |-> NoValue, objectFlags |-> {},
     target |-> [objectFlags |-> {}], properties |-> <<>>,
     callSignatures |-> <<>>, symbol |-> NoSymbol, typeArguments |-> <<>>,
     types |-> <<>>, text |-> Text(id)]

Flagged(id, flags) == [Blank(id) EXCEPT !.flags = flags]

Named(id, symbol, typeArguments) ==
    [Blank(id) EXCEPT !.symbol = symbol, !.typeArguments = typeArguments]

ObjectType(id, objectFlags, targetFlags, properties, callSignatures) ==
    [Blank(id) EXCEPT !.flags = {"Object"}, !.objectFlags = objectFlags,
                      !.target = [objectFlags |-> targetFlags],
                      !.properties = properties,
                      !.callSignatures = callSignatures]

Property(name, isOptional, type) ==
    [name |-> name, flags |-> IF isOptional THEN {"Optional"} ELSE {}, type |-> type]

Signature(parameters, returnType) ==
    [parameters |-> parameters, returnType |-> returnType]

TupleReference(id, properties) ==
    ObjectType(id, {"Reference"}, {"Tuple", "Reference"}, properties, <<>>)

Values ==
    {[string |-> "x"], [number |-> 42],
     [negative |-> TRUE, base10Value |-> <<1, 2>>],
     [negative |-> FALSE, base10Value |-> <<9, 0>>]}

PrimitiveFlags == {"String", "Number", "Boolean", "Unknown", "Any", "BigInt"}

\* property lists: distinct names, as getProperties reports them
Properties(C, n) ==
    {ps \in SeqsUpTo({Property(name, o, c) :
                         name \in {"a", "b", "length"}, o \in BOOLEAN, c \in C}, n) :
        \A i, j \in 1..Len(ps) : i # j => ps[i].name # ps[j].name}

\* signature lists: every parameter list, and one signature of another return type
Signatures(C, n) ==
    SeqsUpTo({Signature(ps, 3) : ps \in SeqsUpTo(C, MaxParams)}
                 \cup {Signature(<<>>, 2)}, n)

\* every combination of flags, literal value and symbol on one type
DispatchTypes(id, c) ==
    {[Blank(id) EXCEPT !.flags = flags, !.value = value, !.symbol = symbol,
                       !.properties = <<Property("a", FALSE, c)>>,
                       !.typeArguments = <<c, c>>, !.types = <<c, c>>] :
        flags \in SUBSET (PrimitiveFlags \cup {"Object", "Union", "Intersection"}),
        value \in {NoValue, [string |-> "x"]},
        symbol \in {NoSymbol, "Set", "Foo"}}

LiteralTypes(id) ==
    {[Blank(id) EXCEPT !.value = value, !.flags = flags] :
        value \in Values, flags \in {{}, {"Any"}, {"Number"}}}

\* object types: every property list, with and without a call signature
PropertyTypes(id, C) ==
    {ObjectType(id, objectFlags, targetFlags, properties, callSignatures) :
        objectFlags \in SUBSET {"Reference"},
        targetFlags \in SUBSET {"Tuple"},
        properties \in Properties(C, MaxProps),
        callSignatures \in {<<>>, <<Signature(<<2>>, 3)>>}}

\* object types: every list of call signatures, with and without a property
CallableTypes(id, C) ==
    {ObjectType(id, {}, {}, properties, callSignatures) :
        properties \in {<<>>, <<Property("a", TRUE, 3)>>},
        callSignatures \in Signatures(C, MaxSigs)}

NamedTypes(id, C) ==
    {Named(id, symbol, typeArguments) :
        symbol \in {"Array", "ReadonlyArray", "Date", "Set", "Record", "Map", "Foo"},
        typeArguments \in SeqsUpTo(C, MaxArgs)}

MemberTypes(id, C) ==
    {[Blank(id) EXCEPT !.flags = {flag}, !.types = members] :
        flag \in {"Union", "Intersection"}, members \in SeqsUpTo(C, MaxMembers)}

\* type 1: the type handed to fromType
RootTypes(C) ==
    PropertyTypes(1, C) \cup CallableTypes(1, C) \cup NamedTypes(1, C)
        \cup MemberTypes(1, C)

\* type 2: an intermediate type over type 3
MidTypes ==
    {Named(2, "Date", <<3>>),
     ObjectType(2, {}, {}, <<Property("k", FALSE, 3)>>, <<>>),
     ObjectType(2, {}, {}, <<>>, <<Signature(<<3>>, 3)>>),
     TupleReference(2, <<Property("0", TRUE, 3), Property("length", FALSE, 3)>>),
     Named(2, "Map", <<3>>)}

\* type 3: a type without constituents
LeafTypes ==
    {[Blank(3) EXCEPT !.value = [negative |-> TRUE, base10Value |-> <<1, 2>>]],
     Blank(3),
     Named(3, "Foo", <<>>),
     TupleReference(3, <<>>)}

\* acyclic graphs: a type's constituents have larger ids
IsGraph(g) ==
    \/ \E t1 \in RootTypes({2, 3}), t2 \in MidTypes, t3 \in LeafTypes :
          g = <<t1, t2, t3>>
    \/ \E t1 \in DispatchTypes(1, 3) \cup LiteralTypes(1) :
          g = <<t1, Flagged(2, {"Number"}), Flagged(3, {"String"})>>

(***************************************************************************)
(* One call of fromType.                                                   *)
(***************************************************************************)
Init ==
    /\ IsGraph(types)
    /\ root = 1
    /\ pc = "start"
    /\ result = Absent
    /\ stack = <<>>

\* fromType(type, locationNode, checker) called and returned or thrown
Classify ==
    /\ pc = "start"
    /\ result' = fromType(types, root)
    /\ pc' = "done"
    /\ UNCHANGED <<types, root, stack>>

Next == Classify

Spec == Init /\ [][Next]_vars

(***************************************************************************)
(* The same call, one recursive call at a time: the stack holds the active *)
(* calls of fromType, each with the number of the next recursive call it   *)
(* makes and the nodes its recursive calls have returned.  The graphs may  *)
(* be cyclic.                                                              *)
(***************************************************************************)
RECURSIVE Flatten(_)
Flatten(seqs) == IF seqs = <<>> THEN <<>> ELSE Head(seqs) \o Flatten(Tail(seqs))

\* the types fromType(id) calls itself on, in the order of the calls
calls(g, id) ==
    IF id = Undefined THEN <<>>
    ELSE LET type == g[id]
             at == branch(type)
             positional == SelectSeq(type.properties, LAMBDA p : p.name # "length")
         IN  CASE at = "object" /\ isTupleReference(type) ->
                    [i \in 1..Len(positional) |-> positional[i].type]
               [] at = "object" /\ ~isTupleReference(type) ->
                    [i \in 1..Len(type.properties) |-> type.properties[i].type]
                        \o Flatten([i \in 1..Len(type.callSignatures) |->
                                       type.callSignatures[i].parameters
                                           \o <<type.callSignatures[i].returnType>>])
               [] at = "symbol" /\ type.symbol \in {"Array", "ReadonlyArray", "Set"} ->
                    <<At(type.typeArguments, 0)>>
               [] at = "symbol" /\ type.symbol \in {"Record", "Map"} ->
                    <<At(type.typeArguments, 0), At(type.typeArguments, 1)>>
               [] at \in {"union", "intersection"} -> type.types
               [] OTHER -> <<>>

\* the call throws before it calls itself: lines 27, 186, 205
throwsAtOnce(g, id) ==
    IF id = Undefined THEN TRUE
    ELSE IF branch(g[id]) = "symbol"
    THEN g[id].symbol \notin {"Array", "ReadonlyArray", "Date", "Set", "Record", "Map"}
    ELSE branch(g[id]) = "throw"

\* the builder called after the recursive calls rejects its input: lines 117, 194, 202
throwsAtEnd(g, id) ==
    IF id = Undefined THEN FALSE
    ELSE IF branch(g[id]) = "object" THEN isTupleReference(g[id]) /\ calls(g, id) = <<>>
    ELSE branch(g[id]) \in {"union", "intersection"} /\ calls(g, id) = <<>>

\* the error such a call throws
thrown(g, id) ==
    IF id = Undefined THEN TypeErrorOfUndefined
    ELSE CASE branch(g[id]) = "throw" -> Failure("Error", "Unknown type: ", g[id].text)
           [] branch(g[id]) = "symbol" ->
                  Failure("Error", "Unknown symbol name: ", g[id].symbol)
           [] branch(g[id]) = "object" -> tuple(<<>>)
           [] branch(g[id]) = "union" -> union(<<>>)
           [] branch(g[id]) = "intersection" -> intersection(<<>>)

\* the node a call returns, nodes being what its recursive calls returned, in order
built(g, id, nodes) ==
    LET type == g[id]
        at == branch(type)
        wrap(property, node) ==
            IF hasSymbolFlag(property, {"Optional"}) THEN optional(node) ELSE node
        positional == SelectSeq(type.properties, LAMBDA p : p.name # "length")
        propertyEntries ==
            [i \in 1..Len(type.properties) |->
                <<type.properties[i].name, wrap(type.properties[i], nodes[i])>>]
        \* where the nodes of signature i start
        start(i) ==
            Len(type.properties)
                + Len(Flatten([k \in 1..(i - 1) |->
                                  type.callSignatures[k].parameters
                                      \o <<type.callSignatures[k].returnType>>]))
        nodeCallSignatures ==
            [i \in 1..Len(type.callSignatures) |->
                LET n == Len(type.callSignatures[i].parameters)
                IN  func(SubSeq(nodes, start(i) + 1, start(i) + n), nodes[start(i) + n + 1])]
        functionNode ==
            IF Len(type.callSignatures) > 0
            THEN IF Len(nodeCallSignatures) = 1 THEN nodeCallSignatures[1]
                 ELSE union(nodeCallSignatures)
            ELSE Absent
    IN  CASE at = "string" -> string
          [] at = "number" -> number
          [] at = "boolean" -> boolean
          [] at = "unknown" -> unknown
          [] at = "literal" -> literalNode(type)
          [] at = "any" -> any
          [] at = "bigint" -> bigint
          [] at = "object" /\ isTupleReference(type) ->
                 tuple([i \in 1..Len(positional) |-> wrap(positional[i], nodes[i])])
          [] at = "object" /\ ~isTupleReference(type) ->
                 combine(propertyEntries, functionNode)
          [] at = "symbol" /\ type.symbol \in {"Array", "ReadonlyArray"} -> array(nodes[1])
          [] at = "symbol" /\ type.symbol = "Date" -> date
          [] at = "symbol" /\ type.symbol = "Set" -> set(nodes[1])
          [] at = "symbol" /\ type.symbol = "Record" -> record(nodes[1], nodes[2])
          [] at = "symbol" /\ type.symbol = "Map" -> map(nodes[1], nodes[2])
          [] at = "union" -> union(nodes)
          [] at = "intersection" -> intersection(nodes)

Frame(id) == [type |-> id, next |-> 1, nodes |-> <<>>]

Top == stack[Len(stack)]

\* property lists of the stepped call: the first property is optional, the
\* second is length
RunProperties(C, n) ==
    {[i \in 1..Len(cs) |-> Property(<<"a", "length", "b", "c">>[i], i = 1, cs[i])] :
        cs \in SeqsUpTo(C, n)}

RunTypes(id, C) ==
    {ObjectType(id, objectFlags, {"Tuple"}, properties, <<>>) :
        objectFlags \in SUBSET {"Reference"}, properties \in RunProperties(C, MaxProps)}
        \cup {ObjectType(id, {}, {}, <<>>, <<Signature(ps, c)>>) :
                 ps \in SeqsUpTo(C, MaxParams), c \in C}
        \cup {ObjectType(id, {}, {}, properties, callSignatures) :
                 properties \in RunProperties(C, 1),
                 callSignatures \in SeqsUpTo({Signature(<<c>>, c) : c \in C}, MaxSigs)}
        \cup {Named(id, "Map", typeArguments) : typeArguments \in SeqsUpTo(C, MaxArgs)}
        \cup {[Blank(id) EXCEPT !.flags = {"Union"}, !.types = members] :
                 members \in SeqsUpTo(C, MaxMembers)}
        \cup {Flagged(id, {"String", "Object"}), Blank(id)}

RunMidTypes ==
    {ObjectType(2, {}, {}, <<Property("k", FALSE, 3)>>, <<>>),
     ObjectType(2, {}, {}, <<Property("k", FALSE, 1)>>, <<>>),
     ObjectType(2, {}, {}, <<>>, <<Signature(<<3>>, 2)>>),
     TupleReference(2, <<Property("length", FALSE, 2), Property("0", FALSE, 3)>>),
     Named(2, "Date", <<2>>),
     Blank(2)}

RunLeafTypes ==
    {Flagged(3, {"String"}),
     Blank(3),
     ObjectType(3, {}, {}, <<Property("k", TRUE, 1)>>, <<>>),
     ObjectType(3, {}, {}, <<>>, <<Signature(<<3>>, 3)>>)}

InitRun ==
    /\ \E t1 \in RunTypes(1, TypeIds), t2 \in RunMidTypes, t3 \in RunLeafTypes :
          types = <<t1, t2, t3>>
    /\ root = 1
    /\ pc = "start"
    /\ result = Absent
    /\ stack = <<>>

\* fromType(type, locationNode, checker) is called
Call ==
    /\ pc = "start"
    /\ stack' = <<Frame(root)>>
    /\ pc' = "running"
    /\ UNCHANGED <<types, root, result>>

\* mutant of Recurse: a type whose call is active is skipped (a visited-set guard)
RecurseGuarded ==
    /\ pc = "running"
    /\ ~throwsAtOnce(types, Top.type)
    /\ Top.next <= Len(calls(types, Top.type))
    /\ Len(stack) < MaxStack
    /\ stack' = IF \E i \in 1..Len(stack) : stack[i].type = calls(types, Top.type)[Top.next]
                THEN [stack EXCEPT ![Len(stack)].next = @ + 1,
                                   ![Len(stack)].nodes = Append(@, unknown)]
                ELSE Append([stack EXCEPT ![Len(stack)].next = @ + 1],
                            Frame(calls(types, Top.type)[Top.next]))
    /\ UNCHANGED <<types, root, pc, result>>

\* the active call makes its next recursive call
Recurse ==
    /\ pc = "running"
    /\ ~throwsAtOnce(types, Top.type)
    /\ Top.next <= Len(calls(types, Top.type))
    /\ Len(stack) < MaxStack
    /\ stack' = Append([stack EXCEPT ![Len(stack)].next = @ + 1],
                       Frame(calls(types, Top.type)[Top.next]))
    /\ UNCHANGED <<types, root, pc, result>>

\* the active call returns its node to its caller
Return ==
    /\ pc = "running"
    /\ ~throwsAtOnce(types, Top.type)
    /\ Top.next > Len(calls(types, Top.type))
    /\ ~throwsAtEnd(types, Top.type)
    /\ IF Len(stack) = 1
       THEN /\ stack' = <<>>
            /\ pc' = "done"
            /\ result' = built(types, Top.type, Top.nodes)
       ELSE /\ stack' = [SubSeq(stack, 1, Len(stack) - 1) EXCEPT
                            ![Len(stack) - 1].nodes =
                                Append(@, built(types, Top.type, Top.nodes))]
            /\ UNCHANGED <<pc, result>>
    /\ UNCHANGED <<types, root>>

\* the active call throws: no caller catches, the error leaves the top-level call
Throw ==
    /\ pc = "running"
    /\ IF throwsAtOnce(types, Top.type) THEN TRUE
       ELSE Top.next > Len(calls(types, Top.type)) /\ throwsAtEnd(types, Top.type)
    /\ stack' = <<>>
    /\ pc' = "done"
    /\ result' = thrown(types, Top.type)
    /\ UNCHANGED <<types, root>>

NextRun == Call \/ Recurse \/ Return \/ Throw

\* the code runs to its next step without waiting on anything
SpecRun == InitRun /\ [][NextRun]_vars /\ WF_vars(NextRun)

(***************************************************************************)
(* Properties.                                                             *)
(***************************************************************************)
Done == pc = "done"

RootType == types[root]

\* the documented dispatch steps, in their documented order
StepHolds(type, k) ==
    CASE k = 1 -> "String" \in type.flags
      [] k = 2 -> "Number" \in type.flags
      [] k = 3 -> "Boolean" \in type.flags
      [] k = 4 -> "Unknown" \in type.flags
      [] k = 5 -> type.value # NoValue
      [] k = 6 -> "Any" \in type.flags
      [] k = 7 -> "BigInt" \in type.flags
      [] k = 8 -> "Object" \in type.flags
      [] k = 9 -> type.symbol # NoSymbol
      [] k = 10 -> "Union" \in type.flags
      [] k = 11 -> "Intersection" \in type.flags
      [] OTHER -> TRUE

FirstStep(type) ==
    CHOOSE k \in 1..12 : StepHolds(type, k) /\ \A j \in 1..(k - 1) : ~StepHolds(type, j)

KnownNames == {"Array", "ReadonlyArray", "Date", "Set", "Record", "Map"}

\* every type a descriptor refers to; a type-argument list read past its end yields Undefined
References(type) ==
    {type.properties[i].type : i \in 1..Len(type.properties)}
        \cup UNION {{type.callSignatures[i].parameters[j] :
                        j \in 1..Len(type.callSignatures[i].parameters)}
                       \cup {type.callSignatures[i].returnType} :
                    i \in 1..Len(type.callSignatures)}
        \cup {type.typeArguments[i] : i \in 1..Len(type.typeArguments)}
        \cup {type.types[i] : i \in 1..Len(type.types)}
        \cup {Undefined}

\* a failure that one of the type's constituents raises, or a builder's rejection
RaisedBelow(g, type, r) ==
    \/ \E c \in References(type) : r = fromType(g, c)
    \/ \E builder \in {"tuple", "union", "intersection"} : r = EmptyInput(builder)

\* what the documented step k yields for the type, r being the result of the call
StepYields(g, type, k, r) ==
    CASE k = 1 -> r = string
      [] k = 2 -> r = number
      [] k = 3 -> r = boolean
      [] k = 4 -> r = unknown
      [] k = 5 -> IsNode(r) /\ r.kind = "literal"
      [] k = 6 -> r = any
      [] k = 7 -> r = bigint
      [] k = 8 ->
             IF IsNode(r)
             THEN r.kind \in {"tuple", "object", "function", "union", "intersection"}
             ELSE RaisedBelow(g, type, r)
      [] k = 9 ->
             IF type.symbol \notin KnownNames
             THEN r = Failure("Error", "Unknown symbol name: ", type.symbol)
             ELSE IF IsNode(r)
             THEN r.kind = CASE type.symbol \in {"Array", "ReadonlyArray"} -> "array"
                             [] type.symbol = "Date" -> "date"
                             [] type.symbol = "Set" -> "set"
                             [] type.symbol = "Record" -> "record"
                             [] type.symbol = "Map" -> "map"
             ELSE RaisedBelow(g, type, r)
      [] k = 10 -> IF IsNode(r) THEN r.kind = "union" ELSE RaisedBelow(g, type, r)
      [] k = 11 -> IF IsNode(r) THEN r.kind = "intersection" ELSE RaisedBelow(g, type, r)
      [] OTHER -> r = Failure("Error", "Unknown type: ", type.text)

\* C1: whatever flags, literal value and symbol the type combines, the result
\* of fromType is the one of the first step, in the documented order, whose
\* test holds: a primitive, a literal, a node of the object rule, a node of
\* the named rule (or its unknown-name error), a union, an intersection, or
\* the fallback error; a failure under a composite step is a constituent's.
C1_FirstMatchWins ==
    Done => StepYields(types, RootType, FirstStep(RootType), result)

\* C1 witness: several tests hold at once (Object, a symbol, Union) and the
\* object rule has answered
C1_Witness ==
    /\ Done
    /\ {"Object", "Union"} \subseteq RootType.flags
    /\ RootType.symbol = "Foo"
    /\ FirstStep(RootType) = 8
    /\ IsNode(result) /\ result.kind = "object"

IsTupleRef(type) ==
    "Reference" \in type.objectFlags /\ "Tuple" \in type.target.objectFlags

\* the type is handled by the composite object rule, and is no tuple reference
PlainObject(type) == FirstStep(type) = 8 /\ ~IsTupleRef(type)

AllClassify(g, ids) == \A i \in 1..Len(ids) : IsNode(fromType(g, ids[i]))

PropertyTypesOf(type) == [i \in 1..Len(type.properties) |-> type.properties[i].type]

\* the classification of a property's type, wrapped in optional exactly when flagged
Wrapped(g, property) ==
    IF "Optional" \in property.flags THEN [kind |-> "optional", inner |-> fromType(g, property.type)]
    ELSE fromType(g, property.type)

\* r is the object node over exactly the properties' names
IsObjectOf(g, properties, r) ==
    /\ IsNode(r) /\ r.kind = "object"
    /\ DOMAIN r.shape = {properties[i].name : i \in 1..Len(properties)}
    /\ \A i \in 1..Len(properties) : r.shape[properties[i].name] = Wrapped(g, properties[i])

\* C2: a non-tuple object type without call signatures yields the object node
\* whose keys are exactly the property names, each mapped to the
\* classification of the property's type, wrapped in optional exactly when
\* the property is optional (and fails when a property's type fails).
C2_ObjectOfProperties ==
    (Done /\ PlainObject(RootType) /\ RootType.callSignatures = <<>>) =>
        IF AllClassify(types, PropertyTypesOf(RootType))
        THEN IsObjectOf(types, RootType.properties, result)
        ELSE IsFailure(result)

\* C2 witness: an object of a required and an optional property
C2_Witness ==
    /\ Done /\ PlainObject(RootType) /\ RootType.callSignatures = <<>>
    /\ Len(RootType.properties) = 2
    /\ RootType.properties[1].flags = {}
    /\ RootType.properties[2].flags = {"Optional"}
    /\ IsNode(result) /\ result.kind = "object"
    /\ result.shape[RootType.properties[2].name].kind = "optional"

SignatureTypesOf(type) ==
    [i \in 1..Len(type.callSignatures) |->
        type.callSignatures[i].parameters \o <<type.callSignatures[i].returnType>>]

AllSignaturesClassify(g, type) ==
    \A i \in 1..Len(type.callSignatures) : AllClassify(g, SignatureTypesOf(type)[i])

\* C3: a non-tuple object type with call signatures and properties yields
\* intersection([signature result, object(properties)]) in that order; with
\* call signatures and no property it yields the signature result itself.
C3_CallableWithProperties ==
    (Done /\ PlainObject(RootType) /\ Len(RootType.callSignatures) >= 1) =>
        IF AllClassify(types, PropertyTypesOf(RootType))
              /\ AllSignaturesClassify(types, RootType)
        THEN LET signatureResult ==
                     getNodeFromCallSignatures(types, RootType.callSignatures)
             IN  IF Len(RootType.properties) >= 1
                 THEN /\ IsNode(result) /\ result.kind = "intersection"
                      /\ Len(result.nodes) = 2
                      /\ result.nodes[1] = signatureResult
                      /\ signatureResult.kind \in {"function", "union"}
                      /\ IsObjectOf(types, RootType.properties, result.nodes[2])
                 ELSE result = signatureResult
        ELSE IsFailure(result)

\* C3 witness: a callable type with properties has become an intersection
C3_Witness ==
    /\ Done /\ PlainObject(RootType)
    /\ Len(RootType.callSignatures) >= 1 /\ Len(RootType.properties) >= 1
    /\ IsNode(result) /\ result.kind = "intersection"

\* the function node of one call signature
FunctionOf(g, signature) ==
    [kind |-> "function",
     arguments |-> [j \in 1..Len(signature.parameters) |->
                       fromType(g, signature.parameters[j])],
     return |-> fromType(g, signature.returnType)]

Positional(type) == SelectSeq(type.properties, LAMBDA p : p.name # "length")

IsTupleOf(g, properties, r) ==
    /\ IsNode(r) /\ r.kind = "tuple"
    /\ Len(r.elements) = Len(properties)
    /\ \A i \in 1..Len(properties) : r.elements[i] = Wrapped(g, properties[i])

TupleCase(type) == FirstStep(type) = 8 /\ IsTupleRef(type)

\* C5 as stated: a tuple reference with N properties other than length yields
\* a tuple node of exactly N elements, for every N.
C5_TupleOfAnyLength ==
    (Done /\ TupleCase(RootType)) =>
        IF AllClassify(types, [i \in 1..Len(Positional(RootType)) |->
                                  Positional(RootType)[i].type])
        THEN IsTupleOf(types, Positional(RootType), result)
        ELSE IsFailure(result)

\* C5 amended: a tuple reference with N >= 1 properties other than length
\* yields the tuple node of exactly those N elements in order, each wrapped
\* in optional exactly when its property is optional, whatever its call
\* signatures (and fails when a member's type fails).
C5_TupleOfPositional ==
    (Done /\ TupleCase(RootType) /\ Len(Positional(RootType)) >= 1) =>
        IF AllClassify(types, [i \in 1..Len(Positional(RootType)) |->
                                  Positional(RootType)[i].type])
        THEN IsTupleOf(types, Positional(RootType), result)
        ELSE IsFailure(result)

\* C5 witness: a tuple reference with length, an optional member and a call
\* signature has become a one-element tuple
C5_Witness ==
    /\ Done /\ TupleCase(RootType)
    /\ Len(RootType.properties) = 2 /\ Len(Positional(RootType)) = 1
    /\ RootType.callSignatures # <<>>
    /\ IsNode(result) /\ result.kind = "tuple" /\ Len(result.elements) = 1
    /\ result.elements[1].kind = "optional"

NamedCase(type) == FirstStep(type) = 9 /\ type.symbol \in KnownNames

\* C6: Array<T> and ReadonlyArray<T> yield array(classify(T)), Set<T> yields
\* set(classify(T)), Map<K,V> yields map(classify(K), classify(V)),
\* Record<K,V> yields record(classify(K), classify(V)), and Date yields
\* date() whatever its type arguments.
C6_NamedGenerics ==
    (Done /\ NamedCase(RootType)) =>
        LET name == RootType.symbol
            arguments == RootType.typeArguments
            T == fromType(types, arguments[1])
            V == fromType(types, arguments[2])
        IN  CASE name = "Date" -> result = date
              [] name \in {"Array", "ReadonlyArray"} /\ Len(arguments) >= 1 ->
                     IF IsNode(T) THEN result = [kind |-> "array", element |-> T]
                     ELSE IsFailure(result)
              [] name = "Set" /\ Len(arguments) >= 1 ->
                     IF IsNode(T) THEN result = [kind |-> "set", element |-> T]
                     ELSE IsFailure(result)
              [] name = "Map" /\ Len(arguments) >= 2 ->
                     IF IsNode(T) /\ IsNode(V)
                     THEN result = [kind |-> "map", key |-> T, value |-> V]
                     ELSE IsFailure(result)
              [] name = "Record" /\ Len(arguments) >= 2 ->
                     IF IsNode(T) /\ IsNode(V)
                     THEN result = [kind |-> "record", key |-> T, value |-> V]
                     ELSE IsFailure(result)
              [] OTHER -> TRUE

\* C6 witness: a Map of two different type arguments has become a map node
C6_Witness ==
    /\ Done /\ NamedCase(RootType) /\ RootType.symbol = "Map"
    /\ IsNode(result) /\ result.kind = "map" /\ result.key # result.value

\* the constituents whose classification the documented rule of a type asks for
Classified(g, id) ==
    IF id = Undefined THEN {}
    ELSE LET type == g[id]
             k == FirstStep(type)
         IN  CASE k = 8 /\ IsTupleRef(type) ->
                    {Positional(type)[i].type : i \in 1..Len(Positional(type))}
               [] k = 8 /\ ~IsTupleRef(type) ->
                    {type.properties[i].type : i \in 1..Len(type.properties)}
                        \cup UNION {{SignatureTypesOf(type)[i][j] :
                                        j \in 1..Len(SignatureTypesOf(type)[i])} :
                                    i \in 1..Len(type.callSignatures)}
               [] k = 9 /\ type.symbol \in {"Array", "ReadonlyArray", "Set"} ->
                    {At(type.typeArguments, 0)}
               [] k = 9 /\ type.symbol \in {"Map", "Record"} ->
                    {At(type.typeArguments, 0), At(type.typeArguments, 1)}
               [] k \in {10, 11} -> {type.types[i] : i \in 1..Len(type.types)}
               [] OTHER -> {}

RECURSIVE Closure(_, _)
Closure(g, ids) ==
    LET more == ids \cup UNION {Classified(g, id) : id \in ids}
    IN  IF more = ids THEN ids ELSE Closure(g, more)

\* the constituents of a type at any depth
Constituents(g, id) == Closure(g, Classified(g, id))

\* the failure of id is its own: none of its constituents fails
Innermost(g, id) ==
    /\ IsFailure(fromType(g, id))
    /\ \A c \in Classified(g, id) : IsNode(fromType(g, c))

\* C7: when the classification of a constituent at any depth fails, the
\* top-level call fails, and with the unchanged error of an innermost failing
\* constituent; no node is returned for the enclosing type.
C7_FailuresPropagate ==
    Done =>
        ((\E c \in Constituents(types, root) : IsFailure(fromType(types, c))) =>
            /\ IsFailure(result)
            /\ \E c \in Constituents(types, root) :
                  Innermost(types, c) /\ result = fromType(types, c))

\* C7 witness: the unknown type two levels down is the error of the call
C7_Witness ==
    /\ Done
    /\ Classified(types, root) = {2}
    /\ Classified(types, 2) = {3}
    /\ result = Failure("Error", "Unknown type: ", "T3")

\* the two errors fromType raises by itself, in the code's wording
UnknownNameError(type) ==
    /\ FirstStep(type) = 9 /\ type.symbol \notin KnownNames
    /\ result = Failure("Error", "Unknown symbol name: ", type.symbol)

UnknownTypeError(type) ==
    /\ FirstStep(type) = 12
    /\ result = Failure("Error", "Unknown type: ", type.text)

\* C8: a call of fromType fails in two cases only: with the unknown-name error
\* of a type that reaches the symbol step, or with the unknown-type error of a
\* type that matches no step; a named generic with too few type arguments
\* yields a node or one of these two errors.  (Rejections by the node builders
\* are left aside.)
C8_TwoFailuresOnly ==
    (Done /\ IsFailure(result)
          /\ result \notin {EmptyInput(b) : b \in {"tuple", "union", "intersection"}}) =>
        \E id \in TypeIds : UnknownNameError(types[id]) \/ UnknownTypeError(types[id])

RECURSIVE NonEmpty(_)
\* every tuple, union and intersection node of the tree has an element
NonEmpty(node) ==
    CASE node.kind = "tuple" ->
             /\ Len(node.elements) >= 1
             /\ \A i \in 1..Len(node.elements) : NonEmpty(node.elements[i])
      [] node.kind \in {"union", "intersection"} ->
             /\ Len(node.nodes) >= 1
             /\ \A i \in 1..Len(node.nodes) : NonEmpty(node.nodes[i])
      [] node.kind = "optional" -> NonEmpty(node.inner)
      [] node.kind \in {"array", "set"} -> NonEmpty(node.element)
      [] node.kind \in {"map", "record"} -> NonEmpty(node.key) /\ NonEmpty(node.value)
      [] node.kind = "object" -> \A name \in DOMAIN node.shape : NonEmpty(node.shape[name])
      [] node.kind = "function" ->
             /\ \A i \in 1..Len(node.arguments) : NonEmpty(node.arguments[i])
             /\ NonEmpty(node.return)
      [] OTHER -> TRUE

Edges(g, id) == IF id = Undefined THEN {} ELSE References(g[id]) \ {Undefined}

RECURSIVE EdgeClosure(_, _)
EdgeClosure(g, ids) ==
    LET more == ids \cup UNION {Edges(g, id) : id \in ids}
    IN  IF more = ids THEN ids ELSE EdgeClosure(g, more)

\* the type graph of the call: the types in reach of the root
InGraph(g) == EdgeClosure(g, {root})

Acyclic(g) == \A id \in InGraph(g) : id \notin EdgeClosure(g, Edges(g, id))

RECURSIVE NestingDepth(_, _)
\* the nesting depth of an acyclic graph below id
NestingDepth(g, id) ==
    LET below == {NestingDepth(g, c) : c \in Edges(g, id)}
    IN  IF below = {} THEN 1
        ELSE 1 + CHOOSE d \in below : \A e \in below : e <= d

RECURSIVE DepthWithMissing(_, _)
\* the same, a type argument read past the end of its list counting as a constituent
DepthWithMissing(g, id) ==
    IF id = Undefined THEN 1
    ELSE LET below == {DepthWithMissing(g, c) :
                          c \in Edges(g, id) \cup (Classified(g, id) \cap {Undefined})}
         IN  IF below = {} THEN 1
             ELSE 1 + CHOOSE d \in below : \A e \in below : e <= d

\* the property, parameter and return types of an is-object type
ObjectEdges(g, id) ==
    IF "Object" \notin g[id].flags THEN {}
    ELSE {g[id].properties[i].type : i \in 1..Len(g[id].properties)}
             \cup UNION {{SignatureTypesOf(g[id])[i][j] :
                             j \in 1..Len(SignatureTypesOf(g[id])[i])} :
                         i \in 1..Len(g[id].callSignatures)}

RECURSIVE ObjectClosure(_, _)
ObjectClosure(g, ids) ==
    LET more == ids \cup UNION {ObjectEdges(g, id) : id \in ids}
    IN  IF more = ids THEN ids ELSE ObjectClosure(g, more)

\* an is-object type of the graph is reachable from itself through property,
\* parameter or return types
ObjectCycle(g) ==
    \E id \in InGraph(g) :
        "Object" \in g[id].flags /\ id \in ObjectClosure(g, ObjectEdges(g, id))

\* the active call is about to call fromType on a type whose call is active
Reentering ==
    /\ pc = "running"
    /\ ~throwsAtOnce(types, Top.type)
    /\ Top.next <= Len(calls(types, Top.type))
    /\ \E i \in 1..Len(stack) : stack[i].type = calls(types, Top.type)[Top.next]

C10_DepthAsStated == Acyclic(types) => Len(stack) <= NestingDepth(types, root)

RunAgrees == (Done /\ Acyclic(types)) => result = fromType(types, root)

====
